---- MODULE Spec2Model ----
(***************************************************************************)
(* Flash finding of larana's OpFlashAlg.cxx: RunFlashFinder calls         *)
(* ProcessFrame once per frame; ProcessFrame builds hits, fills the two    *)
(* accumulators, assigns hits to coarse flashes, refines them, constructs  *)
(* the flash records, removes late light and writes the association list.  *)
(*                                                                         *)
(* Units.  Times are optical ticks (TickPeriod taken as one time unit), so *)
(* PeakTime = t_max + TimeSlice.  PE values are integers.  The refinement  *)
(* window bounds FlashMaxTime / FlashMinTime are kept in half ticks, and a *)
(* flash keeps its mean time as the fraction AveTime / TotalPE and its     *)
(* width as MaxTime - MinTime (twice TimeWidth), so that every comparison  *)
(* of the code is decided in exact integer arithmetic.                     *)
(***************************************************************************)
EXTENDS Integers, Sequences, FiniteSets, TLC

\* ---------------------------------------------------------------- bounds
MaxPulses == 3        \* pulses handed to ConstructHit, all frames together
MaxFrames == 2        \* frames handed to ProcessFrame by RunFlashFinder
MaxPulsesLate == 6    \* pulses of the runs that exercise RemoveLateLight
MaxPulsesDiscard == 4 \* pulses of the runs with discarded pulses on one channel
MaxPulsesBins == 2    \* pulses of the runs over bin boundaries

\* ------------------------------------------------- services and constants
NOpChannels == 2      \* geom.NOpChannels()
FrameTicks == 4       \* pmt_clock.FrameTicks()
BeamGateTicks == 3000 \* the "+3000" of the accumulator size
TolDen == 2           \* WidthTolerance is the fraction WidthTolerance / TolDen
BigTime == 1000000000 \* the 1e9 of MaxTime = -1e9, MinTime = 1e9
ExpScale == 10000     \* std::exp is tabulated in units of 1/ExpScale

\* raw channel r is mapped to r, the last mapped one to -1; one is unmapped
ChannelMap == [r \in 0..(NOpChannels + 2) |-> IF r = NOpChannels + 2 THEN 0 - 1 ELSE r]
PeakValues == {0, 4}
TMaxValues == {1, 2, 4}
Pulse(p, t, w) == [peak |-> p, t_max |-> t, width |-> w]
\* the waveforms of a frame, one pulse each, as <<raw channel, TimeSlice, pulse>>:
\* pulses of width 2 on the even and of width 0 on the odd channels of the
\* detector, and one pulse shape on the other raw channels (mapped to
\* NOpChannels, beyond it, to -1, or not mapped) and in a time slice beyond
\* the frame
Inputs ==
    {<<c, 0, Pulse(p, t, 2 * ((c + 1) % 2))>> :
        c \in 0..(NOpChannels - 1), p \in PeakValues, t \in TMaxValues}
    \cup ((NOpChannels..(NOpChannels + 3)) \X {0} \X {Pulse(4, 1, 0)})
    \cup ({0} \X {FrameTicks + 1} \X {Pulse(4, 1, 0)})
\* pulses of width 0: of peak 4 on the even and of peak 0 on the odd channels
InputsZeroPE ==
    {<<c, 0, Pulse(4 * ((c + 1) % 2), t, 0)>> :
        c \in 0..(NOpChannels - 1), t \in TMaxValues}
\* what an out-of-bounds read of HitVector[size()-1].PE() may return
GarbagePE == {0 - 2, 3}
\* the configurations ProcessFrame is run with: [BinWidth, HitThreshold,
\* FlashThreshold, WidthTolerance (in units of 1/TolDen), length of SPESize]
Cfg(bw, ht, ft, wt, n) ==
    [BinWidth |-> bw, HitThreshold |-> ht, FlashThreshold |-> ft,
     WidthTolerance |-> wt, NSPE |-> n]
Configs ==
    {Cfg(3, 2, 6, 2, NOpChannels + 1), Cfg(2, 2, 2, 1, NOpChannels + 1),
     Cfg(3, 2, 2, 2, NOpChannels), Cfg(2, 2, 6, 1, NOpChannels)}
\* HitThreshold 0 lets pulses of peak 0 become hits of PE 0
ConfigsZeroPE ==
    {Cfg(2, 0, 0, 2, NOpChannels), Cfg(3, 0, 0 - 1, 1, NOpChannels),
     Cfg(3, 0, 2, 2, NOpChannels), Cfg(2, 0, 6, 2, NOpChannels)}

VARIABLES
    BinWidth, HitThreshold, FlashThreshold, WidthTolerance, SPESize,
    HitVector, FlashVector, AssocList,
    Frame, pc, exception, nPulses, NHits_prev,
    Binned1, Binned2, Contributors1, Contributors2,
    FlashesInAccumulator1, FlashesInAccumulator2,
    FlashesBySize, HitClaimedByFlash, HitsPerFlash,
    RefinedHitsPerFlash, iCoarse, HitsBySize, HitsUsed, HitsThisRefinedFlash,
    PEAccumulated, FlashMaxTime, FlashMinTime, NHitsThisRefinedFlash,
    SeedHits, \* the seeds found by the passes of the while(true) of RefineHitsInFlash
    iRefined

params == <<BinWidth, HitThreshold, FlashThreshold, WidthTolerance, SPESize>>
outputs == <<HitVector, FlashVector, AssocList>>
accums == <<Binned1, Binned2, Contributors1, Contributors2,
            FlashesInAccumulator1, FlashesInAccumulator2>>
assign == <<FlashesBySize, HitClaimedByFlash, HitsPerFlash>>
group == <<HitsBySize, HitsUsed, HitsThisRefinedFlash, PEAccumulated,
           FlashMaxTime, FlashMinTime, NHitsThisRefinedFlash, SeedHits>>
refine == <<RefinedHitsPerFlash, iCoarse, group>>
vars == <<params, outputs, Frame, pc, exception, nPulses, NHits_prev,
          accums, assign, refine, iRefined>>

\* the passes of the while(true) of RefineHitsInFlash that found a seed
NSeeds == Len(SeedHits)

\* ------------------------------------------------------------ containers
\* vector::at on a zero-based vector held as a sequence
At(v, i) == v[i + 1]
InRange(v, i) == i >= 0 /\ i < Len(v)
\* the accumulators are vectors of NBins zeros / empty lists; only the
\* bins that were written are stored
NBins == (FrameTicks + BeamGateTicks + BinWidth) \div BinWidth
BinAt(b, i) == IF i \in DOMAIN b THEN b[i] ELSE 0
ContribAt(c, i) == IF i \in DOMAIN c THEN c[i] ELSE <<>>
Put(f, i, x) == [j \in (DOMAIN f) \cup {i} |-> IF j = i THEN x ELSE f[j]]

RECURSIVE SumPE(_, _)
SumPE(hv, ids) ==
    IF ids = <<>> THEN 0 ELSE At(hv, Head(ids)).PE + SumPE(hv, Tail(ids))

\* InsertDesc putting the entry before the entries of equal key
RECURSIVE InsertDesc_BeforeEqual(_, _)
InsertDesc_BeforeEqual(s, e) ==
    IF s = <<>> THEN <<e>>
    ELSE IF e.key >= Head(s).key THEN <<e>> \o s
    ELSE <<Head(s)>> \o InsertDesc_BeforeEqual(Tail(s), e)

\* stable insertion of entry e (a record with a key) into a sequence kept
\* in descending key order, after the entries of equal key: the iteration
\* order of a std::map<double, ..., std::greater<double>> of vectors
RECURSIVE InsertDesc(_, _)
InsertDesc(s, e) ==
    IF s = <<>> THEN <<e>>
    ELSE IF e.key > Head(s).key THEN <<e>> \o s
    ELSE <<Head(s)>> \o InsertDesc(Tail(s), e)

\* ------------------------------------------------------------------ hits
\* ConstructHit: the vector after the call (unchanged below threshold)
ConstructHit(hv, Channel, TimeSlice, frame, pulse, spe) ==
    IF pulse.peak < HitThreshold THEN hv
    ELSE Append(hv, [OpChannel |-> Channel,
                     PeakTime |-> pulse.t_max + TimeSlice,
                     Width |-> pulse.width,
                     PE |-> pulse.peak \div spe,
                     Frame |-> frame])

\* GetAccumIndex without the offset
GetAccumIndex_NoOffset(TMax, TimeSlice, binWidth, BinOffset) ==
    (TMax + TimeSlice) \div binWidth

GetAccumIndex(TMax, TimeSlice, binWidth, BinOffset) ==
    ((TMax + TimeSlice) + BinOffset) \div binWidth

\* FillAccumulator with a level test in place of the edge test
FillAccumulator_LevelCheck(acc, AccumIndex, HitIndex, PE) ==
    IF AccumIndex >= NBins THEN [acc EXCEPT !.ok = FALSE]
    ELSE LET sum == BinAt(acc.Binned, AccumIndex) + PE
         IN  [Binned |-> Put(acc.Binned, AccumIndex, sum),
              Contributors |-> Put(acc.Contributors, AccumIndex,
                                   Append(ContribAt(acc.Contributors, AccumIndex), HitIndex)),
              Flashes |-> IF sum >= FlashThreshold
                          THEN Append(acc.Flashes, AccumIndex)
                          ELSE acc.Flashes,
              ok |-> TRUE]

\* FillAccumulator taking a sum that was exactly at threshold as "not yet a flash"
FillAccumulator_EdgeInclusive(acc, AccumIndex, HitIndex, PE) ==
    IF AccumIndex >= NBins THEN [acc EXCEPT !.ok = FALSE]
    ELSE LET sum == BinAt(acc.Binned, AccumIndex) + PE
         IN  [Binned |-> Put(acc.Binned, AccumIndex, sum),
              Contributors |-> Put(acc.Contributors, AccumIndex,
                                   Append(ContribAt(acc.Contributors, AccumIndex), HitIndex)),
              Flashes |-> IF sum >= FlashThreshold /\ (sum - PE) <= FlashThreshold
                          THEN Append(acc.Flashes, AccumIndex)
                          ELSE acc.Flashes,
              ok |-> TRUE]

\* one accumulator as a record [Binned, Contributors, Flashes, ok];
\* ok = FALSE when Contributors.at(AccumIndex) throws
FillAccumulator(acc, AccumIndex, HitIndex, PE) ==
    IF AccumIndex >= NBins THEN [acc EXCEPT !.ok = FALSE]
    ELSE LET sum == BinAt(acc.Binned, AccumIndex) + PE
         IN  [Binned |-> Put(acc.Binned, AccumIndex, sum),
              Contributors |-> Put(acc.Contributors, AccumIndex,
                                   Append(ContribAt(acc.Contributors, AccumIndex), HitIndex)),
              Flashes |-> IF sum >= FlashThreshold /\ (sum - PE) < FlashThreshold
                          THEN Append(acc.Flashes, AccumIndex)
                          ELSE acc.Flashes,
              ok |-> TRUE]

Throw(what) ==
    /\ pc' = "aborted"
    /\ exception' = what
    /\ UNCHANGED <<params, outputs, Frame, nPulses, NHits_prev, accums, assign,
                   refine, iRefined>>

\* lines 152-174: both accumulators are filled with the index and the PE of
\* the last element of HitVector
FillBoth(hv, pulse, TimeSlice, HitIndex, PE) ==
    LET a1 == FillAccumulator([Binned |-> Binned1, Contributors |-> Contributors1,
                               Flashes |-> FlashesInAccumulator1, ok |-> TRUE],
                              GetAccumIndex(pulse.t_max, TimeSlice, BinWidth, 0),
                              HitIndex, PE)
        a2 == FillAccumulator([Binned |-> Binned2, Contributors |-> Contributors2,
                               Flashes |-> FlashesInAccumulator2, ok |-> TRUE],
                              GetAccumIndex(pulse.t_max, TimeSlice, BinWidth, BinWidth \div 2),
                              HitIndex, PE)
    IN  IF ~a1.ok THEN Throw("Contributors.at")
        ELSE IF ~a2.ok
        THEN /\ pc' = "aborted"
             /\ exception' = "Contributors.at"
             /\ HitVector' = hv
             /\ Binned1' = a1.Binned
             /\ Contributors1' = a1.Contributors
             /\ FlashesInAccumulator1' = a1.Flashes
             /\ UNCHANGED <<params, FlashVector, AssocList, Frame, nPulses, NHits_prev,
                            Binned2, Contributors2, FlashesInAccumulator2,
                            assign, refine, iRefined>>
        ELSE /\ HitVector' = hv
             /\ Binned1' = a1.Binned
             /\ Contributors1' = a1.Contributors
             /\ FlashesInAccumulator1' = a1.Flashes
             /\ Binned2' = a2.Binned
             /\ Contributors2' = a2.Contributors
             /\ FlashesInAccumulator2' = a2.Flashes
             /\ nPulses' = nPulses + 1
             /\ UNCHANGED <<params, FlashVector, AssocList, Frame, pc, exception,
                            NHits_prev, assign, refine, iRefined>>

\* one iteration of the loops of lines 123-178 on waveform in = <<raw
\* channel, TimeSlice, pulse>>
PulseStep(in) ==
         LET raw == in[1]
             TimeSlice == in[2]
             pulse == in[3]
         IN
         IF raw \notin DOMAIN ChannelMap THEN Throw("ChannelMap.at")
         ELSE LET Channel == ChannelMap[raw] IN
           IF Channel < 0 \/ Channel > NOpChannels \/ TimeSlice > FrameTicks
           THEN \* the waveform is skipped
                UNCHANGED vars
           ELSE IF ~InRange(SPESize, Channel) THEN Throw("SPESize.at")
           ELSE LET hv == ConstructHit(HitVector, Channel, TimeSlice, Frame, pulse,
                                       At(SPESize, Channel))
                IN  IF hv = <<>>
                    THEN \* HitVector[size()-1] of an empty vector is read:
                         \* the read faults or yields some value
                         \/ Throw("HitVector[size()-1]")
                         \/ \E g \in GarbagePE : FillBoth(hv, pulse, TimeSlice, 0 - 1, g)
                    ELSE FillBoth(hv, pulse, TimeSlice, Len(hv) - 1, At(hv, Len(hv) - 1).PE)

ProcessPulseOf(inputs) ==
    /\ pc = "pulses"
    /\ nPulses < MaxPulses
    /\ \E in \in inputs : PulseStep(in)

ProcessPulse == ProcessPulseOf(Inputs)

ProcessPulseZeroPE == ProcessPulseOf(InputsZeroPE)

\* Waveforms that build flashes one after the other in time, two pulses on
\* channel 0 for each: the first of peak p at time t, the second of the same
\* peak at t or t + 2.  With WidthTolerance 1 the two hits of a pair form
\* one refined flash; pairs that start more than 4 ticks apart stay apart.
LatePeaks(f) == IF f = 0 THEN {4, 50} ELSE {1, 4}
LateTimes(f) == IF f = 0 THEN {1, 20} ELSE {5 * f + 1, 5 * f + 3}
InputsLate ==
    IF nPulses % 2 = 0
    THEN {<<0, 0, Pulse(p, t, 2)>> :
             p \in LatePeaks(nPulses \div 2), t \in LateTimes(nPulses \div 2)}
    ELSE LET last == HitVector[Len(HitVector)]
         IN  {<<0, 0, Pulse(last.PE, last.PeakTime + d, 2)>> : d \in {0, 2}}
ConfigsLate == {Cfg(32, 1, 2, 2, NOpChannels), Cfg(32, 1, 4, 2, NOpChannels)}

ProcessPulseLate ==
    /\ pc = "pulses"
    /\ nPulses < MaxPulsesLate
    /\ \E in \in InputsLate : PulseStep(in)

\* Frames of pulses on channel 0 alone, at or below HitThreshold, long enough
\* for two pulses below threshold and two hits in one frame.
InputsDiscard == {<<0, 0, Pulse(p, t, 2)>> : p \in PeakValues, t \in TMaxValues}
ConfigsDiscard == {Cfg(2, 2, 2, 1, NOpChannels), Cfg(3, 2, 6, 2, NOpChannels)}
ProcessPulseDiscard ==
    /\ pc = "pulses"
    /\ nPulses < MaxPulsesDiscard
    /\ \E in \in InputsDiscard : PulseStep(in)

\* Frames of hits on channel 0 around the first bin boundaries and at the end
\* of the accumulators, in time slice 0 or FrameTicks, for BinWidth 2 to 5.
TMaxBins == (0..5) \cup {BeamGateTicks - 1, BeamGateTicks}
InputsBins == {<<0, ts, Pulse(4, t, 2)>> : ts \in {0, FrameTicks}, t \in TMaxBins}
ConfigsBins == {Cfg(w, 2, 2, 1, NOpChannels) : w \in 2..5}
ProcessPulseBins ==
    /\ pc = "pulses"
    /\ nPulses < MaxPulsesBins
    /\ \E in \in InputsBins : PulseStep(in)

\* -------------------------------------------------------- AssignHitsToFlash
RECURSIVE FillFlashesBySizeMap(_, _, _, _)
FillFlashesBySizeMap(FlashesInAccumulator, BinnedPE, Accumulator, bySize) ==
    IF FlashesInAccumulator = <<>> THEN bySize
    ELSE FillFlashesBySizeMap(Tail(FlashesInAccumulator), BinnedPE, Accumulator,
             InsertDesc(bySize, [key |-> BinAt(BinnedPE, Head(FlashesInAccumulator)),
                                 acc |-> Accumulator,
                                 bin |-> Head(FlashesInAccumulator)]))

\* HitClaimedByFlash.at(HitIndex-NHits_prev) is out of range for a
\* contributor of the bin
FillHitsThisFlashThrows(contrib, nprev, claimed) ==
    \E k \in 1..Len(contrib) : ~InRange(claimed, contrib[k] - nprev)

\* FillHitsThisFlash without the test for earlier claims
FillHitsThisFlash_Unfiltered(contrib, nprev, claimed) ==
    contrib

\* the hits of the bin that no flash has claimed, when no access throws
FillHitsThisFlash(contrib, nprev, claimed) ==
    SelectSeq(contrib, LAMBDA HitIndex : At(claimed, HitIndex - nprev) = 0 - 1)

\* ClaimHits without the return below FlashThreshold
ClaimHits_NoThreshold(hv, HitsThisFlash, hitsPerFlash, nprev, claimed) ==
    [HitsPerFlash |-> Append(hitsPerFlash, HitsThisFlash),
     HitClaimedByFlash |->
         [i \in 1..Len(claimed) |->
             IF claimed[i] = 0 - 1
                /\ \E k \in 1..Len(HitsThisFlash) : HitsThisFlash[k] - nprev = i - 1
             THEN Len(hitsPerFlash)
             ELSE claimed[i]]]

\* ClaimHits: [HitsPerFlash, HitClaimedByFlash] after the call
ClaimHits(hv, HitsThisFlash, hitsPerFlash, nprev, claimed) ==
    IF SumPE(hv, HitsThisFlash) < FlashThreshold
    THEN [HitsPerFlash |-> hitsPerFlash, HitClaimedByFlash |-> claimed]
    ELSE [HitsPerFlash |-> Append(hitsPerFlash, HitsThisFlash),
          HitClaimedByFlash |->
              [i \in 1..Len(claimed) |->
                  IF claimed[i] = 0 - 1
                     /\ \E k \in 1..Len(HitsThisFlash) : HitsThisFlash[k] - nprev = i - 1
                  THEN Len(hitsPerFlash)
                  ELSE claimed[i]]]

\* the end of the waveform loop and lines 360-378 of AssignHitsToFlash
BeginAssign ==
    /\ pc = "pulses"
    /\ nPulses >= 1
    /\ FlashesBySize' =
         FillFlashesBySizeMap(FlashesInAccumulator2, Binned2, 2,
             FillFlashesBySizeMap(FlashesInAccumulator1, Binned1, 1, <<>>))
    /\ pc' = IF FlashesBySize' = <<>> THEN "finish" ELSE "assign"
    /\ HitClaimedByFlash' = [i \in 1..(Len(HitVector) - NHits_prev) |-> 0 - 1]
    /\ HitsPerFlash' = <<>>
    /\ RefinedHitsPerFlash' = <<>>
    /\ iCoarse' = 0
    /\ iRefined' = 0
    /\ UNCHANGED <<params, outputs, Frame, exception, nPulses, NHits_prev, accums,
                   group>>

\* one iteration of the loops of lines 382-418
ClaimNextBin ==
    /\ pc = "assign"
    /\ FlashesBySize # <<>>
    /\ LET e == Head(FlashesBySize)
           contrib == ContribAt(IF e.acc = 1 THEN Contributors1 ELSE Contributors2, e.bin)
           HitsThisFlash == FillHitsThisFlash(contrib, NHits_prev, HitClaimedByFlash)
       IN  IF FillHitsThisFlashThrows(contrib, NHits_prev, HitClaimedByFlash)
           THEN Throw("HitClaimedByFlash.at")
           ELSE LET r == ClaimHits(HitVector, HitsThisFlash, HitsPerFlash, NHits_prev,
                                   HitClaimedByFlash)
                IN  /\ FlashesBySize' = Tail(FlashesBySize)
                    /\ HitsPerFlash' = r.HitsPerFlash
                    /\ HitClaimedByFlash' = r.HitClaimedByFlash
                    /\ pc' = IF FlashesBySize' # <<>> THEN "assign"
                             ELSE IF HitsPerFlash' # <<>> THEN "refine"
                             ELSE "finish"
                    /\ UNCHANGED <<params, outputs, Frame, exception, nPulses,
                                   NHits_prev, accums, refine, iRefined>>

\* -------------------------------------------------------- RefineHitsInFlash
RECURSIVE SortHitsBySize(_, _, _)
SortHitsBySize(hv, HitsThisFlash, bySize) ==
    IF HitsThisFlash = <<>> THEN bySize
    ELSE SortHitsBySize(hv, Tail(HitsThisFlash),
             InsertDesc(bySize, [key |-> At(hv, Head(HitsThisFlash)).PE,
                                 HitID |-> Head(HitsThisFlash)]))

\* FindSeedHit leaving the seed unmarked (without line 446)
RECURSIVE FindSeedHit_LeaveUnused(_, _, _)
FindSeedHit_LeaveUnused(bySize, used, hv) ==
    IF bySize = <<>>
    THEN [used |-> used, hits |-> <<>>, pe |-> 0, max |-> 0, min |-> 0]
    ELSE IF Head(bySize).HitID \in used
    THEN FindSeedHit_LeaveUnused(Tail(bySize), used, hv)
    ELSE LET HitID == Head(bySize).HitID
             h == At(hv, HitID)
         IN  [used |-> used,
              hits |-> <<HitID>>,
              pe |-> h.PE,
              max |-> 2 * h.PeakTime + h.Width,
              min |-> 2 * h.PeakTime - h.Width]

\* a group being grown: [used, hits, pe, max, min]; max and min in half ticks
RECURSIVE FindSeedHit(_, _, _)
FindSeedHit(bySize, used, hv) ==
    IF bySize = <<>>
    THEN [used |-> used, hits |-> <<>>, pe |-> 0, max |-> 0, min |-> 0]
    ELSE IF Head(bySize).HitID \in used THEN FindSeedHit(Tail(bySize), used, hv)
    ELSE LET HitID == Head(bySize).HitID
             h == At(hv, HitID)
         IN  [used |-> used \cup {HitID},
              hits |-> <<HitID>>,
              pe |-> h.PE,
              max |-> 2 * h.PeakTime + h.Width,
              min |-> 2 * h.PeakTime - h.Width]

Abs(x) == IF x < 0 THEN 0 - x ELSE x
Max(a, b) == IF a > b THEN a ELSE b
Min(a, b) == IF a < b THEN a ELSE b

\* |HitTime - FlashTime| > WidthTolerance * (HitWidth + FlashWidth), times 4 TolDen
TooFar(h, g) ==
    TolDen * Abs(4 * h.PeakTime - (g.max + g.min))
        > WidthTolerance * (2 * h.Width + (g.max - g.min))

AddHitToFlash(HitID, currentHit, g) ==
    IF HitID \in g.used THEN g
    ELSE IF TooFar(currentHit, g) THEN g
    ELSE [used |-> g.used \cup {HitID},
          hits |-> Append(g.hits, HitID),
          pe |-> g.pe + currentHit.PE,
          max |-> Max(g.max, 2 * currentHit.PeakTime + currentHit.Width),
          min |-> Min(g.min, 2 * currentHit.PeakTime - currentHit.Width)]

\* a pass of the for loops that leaves out the last hit of HitsBySize
RECURSIVE ScanHits_SkipLast(_, _, _)
ScanHits_SkipLast(bySize, hv, g) ==
    IF Len(bySize) <= 1 THEN g
    ELSE ScanHits_SkipLast(Tail(bySize), hv,
                  AddHitToFlash(Head(bySize).HitID, At(hv, Head(bySize).HitID), g))

\* one pass of the for loops of lines 552-562
RECURSIVE ScanHits(_, _, _)
ScanHits(bySize, hv, g) ==
    IF bySize = <<>> THEN g
    ELSE ScanHits(Tail(bySize), hv,
                  AddHitToFlash(Head(bySize).HitID, At(hv, Head(bySize).HitID), g))

\* CheckAndStoreFlash without the threshold test
CheckAndStoreFlash_AlwaysStore(refined, hits, pe, used) ==
    [Refined |-> Append(refined, hits), Used |-> used]

\* CheckAndStoreFlash releasing the hits of a stored group as well
CheckAndStoreFlash_ReleaseStored(refined, hits, pe, used) ==
    [Refined |-> IF pe >= FlashThreshold THEN Append(refined, hits) ELSE refined,
     Used |-> used \ {hits[i] : i \in 2..Len(hits)}]

\* CheckAndStoreFlash releasing the seed with the other hits of a rejected group
CheckAndStoreFlash_ReleaseSeed(refined, hits, pe, used) ==
    IF pe >= FlashThreshold
    THEN [Refined |-> Append(refined, hits), Used |-> used]
    ELSE IF Len(hits) = 1 THEN [Refined |-> refined, Used |-> used]
    ELSE [Refined |-> refined,
          Used |-> used \ {hits[i] : i \in 1..Len(hits)}]

\* CheckAndStoreFlash without the release of the hits of a rejected group
CheckAndStoreFlash_KeepAll(refined, hits, pe, used) ==
    IF pe >= FlashThreshold
    THEN [Refined |-> Append(refined, hits), Used |-> used]
    ELSE [Refined |-> refined, Used |-> used]

\* CheckAndStoreFlash storing every group of a single hit
CheckAndStoreFlash_StoreSingles(refined, hits, pe, used) ==
    IF pe >= FlashThreshold \/ Len(hits) = 1
    THEN [Refined |-> Append(refined, hits), Used |-> used]
    ELSE [Refined |-> refined,
          Used |-> used \ {hits[i] : i \in 2..Len(hits)}]

\* CheckAndStoreFlash: [Refined, Used] after the call
CheckAndStoreFlash(refined, hits, pe, used) ==
    IF pe >= FlashThreshold
    THEN [Refined |-> Append(refined, hits), Used |-> used]
    ELSE IF Len(hits) = 1 THEN [Refined |-> refined, Used |-> used]
    ELSE [Refined |-> refined,
          Used |-> used \ {hits[i] : i \in 2..Len(hits)}]

\* the call of RefineHitsInFlash on coarse flash iCoarse: lines 513-529
BeginRefine ==
    /\ pc = "refine"
    /\ iCoarse < Len(HitsPerFlash)
    /\ HitsBySize' = SortHitsBySize(HitVector, At(HitsPerFlash, iCoarse), <<>>)
    /\ HitsUsed' = {}
    /\ HitsThisRefinedFlash' = <<>>
    /\ PEAccumulated' = 0
    /\ FlashMaxTime' = 0
    /\ FlashMinTime' = 0
    /\ NHitsThisRefinedFlash' = 0
    /\ SeedHits' = <<>>
    /\ pc' = "seed"
    /\ UNCHANGED <<params, outputs, Frame, exception, nPulses, NHits_prev, accums,
                   assign, RefinedHitsPerFlash, iCoarse, iRefined>>

\* lines 533-546; with no unused hit left RefineHitsInFlash returns
SeedGroup ==
    /\ pc = "seed"
    /\ LET g == FindSeedHit(HitsBySize, HitsUsed, HitVector)
       IN  /\ HitsUsed' = g.used
           /\ HitsThisRefinedFlash' = g.hits
           /\ PEAccumulated' = g.pe
           /\ FlashMaxTime' = g.max
           /\ FlashMinTime' = g.min
           /\ NHitsThisRefinedFlash' = 0
           /\ SeedHits' = IF g.hits # <<>> THEN Append(SeedHits, g.hits[1]) ELSE SeedHits
           /\ IF g.hits # <<>>
              THEN /\ pc' = "grow"
                   /\ iCoarse' = iCoarse
              ELSE /\ iCoarse' = iCoarse + 1
                   /\ pc' = IF iCoarse' < Len(HitsPerFlash) THEN "refine"
                            ELSE IF RefinedHitsPerFlash # <<>> THEN "construct"
                            ELSE "finish"
    /\ UNCHANGED <<params, outputs, Frame, exception, nPulses, NHits_prev, accums,
                   assign, RefinedHitsPerFlash, HitsBySize, iRefined>>

\* one iteration of the while loop of lines 549-564
GrowGroup ==
    /\ pc = "grow"
    /\ NHitsThisRefinedFlash < Len(HitsThisRefinedFlash)
    /\ LET g == ScanHits(HitsBySize, HitVector,
                         [used |-> HitsUsed, hits |-> HitsThisRefinedFlash,
                          pe |-> PEAccumulated, max |-> FlashMaxTime,
                          min |-> FlashMinTime])
       IN  /\ NHitsThisRefinedFlash' = Len(HitsThisRefinedFlash)
           /\ HitsUsed' = g.used
           /\ HitsThisRefinedFlash' = g.hits
           /\ PEAccumulated' = g.pe
           /\ FlashMaxTime' = g.max
           /\ FlashMinTime' = g.min
    /\ UNCHANGED <<params, outputs, Frame, pc, exception, nPulses, NHits_prev,
                   accums, assign, RefinedHitsPerFlash, iCoarse, HitsBySize, SeedHits,
                   iRefined>>

\* the loop has ended: lines 568-572
StoreGroup ==
    /\ pc = "grow"
    /\ ~(NHitsThisRefinedFlash < Len(HitsThisRefinedFlash))
    /\ LET r == CheckAndStoreFlash(RefinedHitsPerFlash, HitsThisRefinedFlash,
                                   PEAccumulated, HitsUsed)
       IN  /\ RefinedHitsPerFlash' = r.Refined
           /\ HitsUsed' = r.Used
    /\ pc' = "seed"
    /\ UNCHANGED <<params, outputs, Frame, exception, nPulses, NHits_prev, accums,
                   assign, iCoarse, HitsBySize, HitsThisRefinedFlash, PEAccumulated,
                   FlashMaxTime, FlashMinTime, NHitsThisRefinedFlash, SeedHits, iRefined>>

\* ----------------------------------------------------------- ConstructFlash
\* the running sums of ConstructFlash / AddHitContribution as a record;
\* ok = FALSE when PEs.at(OpChannel) throws
RECURSIVE AddHitContribution(_, _, _)
AddHitContribution(hv, ids, a) ==
    IF ids = <<>> \/ ~a.ok THEN a
    ELSE LET currentHit == At(hv, Head(ids)) IN
         IF ~InRange(a.PEs, currentHit.OpChannel)
         THEN [a EXCEPT !.ok = FALSE]
         ELSE AddHitContribution(hv, Tail(ids),
                [ok |-> TRUE,
                 MaxTime |-> IF currentHit.PeakTime > a.MaxTime
                             THEN currentHit.PeakTime ELSE a.MaxTime,
                 MinTime |-> IF currentHit.PeakTime < a.MinTime
                             THEN currentHit.PeakTime ELSE a.MinTime,
                 AveTime |-> a.AveTime + currentHit.PeakTime * currentHit.PE,
                 TotalPE |-> a.TotalPE + currentHit.PE,
                 PEs |-> [a.PEs EXCEPT ![currentHit.OpChannel + 1] = @ + currentHit.PE]])

\* the flash record: Time() is AveTime / TotalPE, TimeWidth() is Width2 / 2
\* and TotalPE() is the sum of PEs
ConstructFlash(HitsPerFlashVec, hv, frame) ==
    LET a == AddHitContribution(hv, HitsPerFlashVec,
                 [ok |-> TRUE, MaxTime |-> 0 - BigTime, MinTime |-> BigTime,
                  AveTime |-> 0, TotalPE |-> 0,
                  PEs |-> [c \in 1..NOpChannels |-> 0]])
    IN  [ok |-> a.ok, AveTime |-> a.AveTime, TotalPE |-> a.TotalPE,
         Width2 |-> a.MaxTime - a.MinTime, PEs |-> a.PEs, Frame |-> frame]

\* one iteration of the loop of lines 209-216
BuildFlash ==
    /\ pc = "construct"
    /\ iRefined < Len(RefinedHitsPerFlash)
    /\ LET f == ConstructFlash(At(RefinedHitsPerFlash, iRefined), HitVector, Frame)
       IN  IF ~f.ok THEN Throw("PEs.at")
           ELSE /\ FlashVector' = Append(FlashVector,
                                    [AveTime |-> f.AveTime, TotalPE |-> f.TotalPE,
                                     Width2 |-> f.Width2, PEs |-> f.PEs,
                                     Frame |-> f.Frame])
                /\ iRefined' = iRefined + 1
                /\ pc' = IF iRefined' < Len(RefinedHitsPerFlash) THEN "construct"
                         ELSE "finish"
                /\ UNCHANGED <<params, HitVector, AssocList, Frame, exception, nPulses,
                               NHits_prev, accums, assign, refine>>

\* ---------------------------------------------------------- RemoveLateLight
\* OpFlashSortByTime: a.Time() < b.Time()
TimeLess(a, b) == a.AveTime * b.TotalPE < b.AveTime * a.TotalPE

\* a/b < c/d for positive a, b, c, d, without forming the products
RECURSIVE FracLess(_, _, _, _)
FracLess(a, b, c, d) ==
    IF a \div b # c \div d THEN a \div b < c \div d
    ELSE IF c % d = 0 THEN FALSE
    ELSE IF a % b = 0 THEN TRUE
    ELSE FracLess(d, c % d, b, a % b)

\* round(ExpScale * exp(-k/8)) for k = 0..64
ExpTab ==
    <<10000, 8825, 7788, 6873, 6065, 5353, 4724, 4169, 3679, 3247, 2865, 2528,
      2231, 1969, 1738, 1534, 1353, 1194, 1054, 930, 821, 724, 639, 564, 498,
      439, 388, 342, 302, 266, 235, 208, 183, 162, 143, 126, 111, 98, 87, 76,
      67, 59, 52, 46, 41, 36, 32, 28, 25, 22, 19, 17, 15, 13, 12, 10, 9, 8, 7,
      6, 6, 5, 4, 4, 3>>

\* the decay factor taken as 1 whatever the gap
ExpDecay_Constant(i, j) ==
    ExpScale

\* ExpScale * exp(-(jTime-iTime)/1.6): the exponent (jTime-iTime)/1.6 is
\* 5 (jTime-iTime) / 8, rounded down to a multiple of 1/8
ExpDecay(i, j) ==
    LET k == (5 * (j.AveTime * i.TotalPE - i.AveTime * j.TotalPE))
                 \div (i.TotalPE * j.TotalPE)
    IN  IF k + 1 \in DOMAIN ExpTab THEN ExpTab[k + 1] ELSE 0

\* HypPE = iPE * jWidth / iWidth * exp(...) as the fraction num / den
HypPE(i, j) ==
    [num |-> i.TotalPE * j.Width2 * ExpDecay(i, j), den |-> i.Width2 * ExpScale]

\* GetLikelihoodLateLight(i, j) < 3 with the square root left out
LateLight_NoSqrt(i, j) ==
    IF TimeLess(j, i) THEN FALSE
    ELSE IF i.Width2 = 0 THEN FALSE
    ELSE LET H == HypPE(i, j)
         IN  IF H.num = 0 THEN j.TotalPE < 0
             ELSE j.TotalPE * H.den - H.num < 3 * H.den

\* GetLikelihoodLateLight(i, j) < 3.  A zero iWidth gives an infinite or NaN
\* HypPE and a NaN result; a zero HypPE gives jPE/0
LateLight(i, j) ==
    IF TimeLess(j, i) THEN FALSE
    ELSE IF i.Width2 = 0 THEN FALSE
    ELSE LET H == HypPE(i, j)
             D == j.TotalPE * H.den - H.num
         IN  IF H.num = 0 THEN j.TotalPE < 0
             ELSE IF D <= 0 THEN TRUE
             ELSE FracLess(D, H.den, 9 * H.num, D)

\* the inner loop of MarkFlashesForRemoval; marks is MarkedForRemoval
RECURSIVE MarkLater(_, _, _, _, _)
MarkLater(fv, BeginFlash, iFlash, jFlash, marks) ==
    IF jFlash = Len(fv) THEN marks
    ELSE MarkLater(fv, BeginFlash, iFlash, jFlash + 1,
             IF At(marks, jFlash - BeginFlash) THEN marks
             ELSE IF LateLight(At(fv, iFlash), At(fv, jFlash))
                  THEN [marks EXCEPT ![jFlash - BeginFlash + 1] = TRUE]
                  ELSE marks)

\* MarkFlashesForRemoval with the inner loop starting at iFlash itself
RECURSIVE MarkFlashesForRemoval_FromSelf(_, _, _, _)
MarkFlashesForRemoval_FromSelf(fv, BeginFlash, iFlash, marks) ==
    IF iFlash = Len(fv) THEN marks
    ELSE MarkFlashesForRemoval_FromSelf(fv, BeginFlash, iFlash + 1,
             MarkLater(fv, BeginFlash, iFlash, iFlash, marks))

\* MarkFlashesForRemoval passing over a marked flash as the earlier flash
RECURSIVE MarkFlashesForRemoval_SkipMarked(_, _, _, _)
MarkFlashesForRemoval_SkipMarked(fv, BeginFlash, iFlash, marks) ==
    IF iFlash = Len(fv) THEN marks
    ELSE MarkFlashesForRemoval_SkipMarked(fv, BeginFlash, iFlash + 1,
             IF At(marks, iFlash - BeginFlash) THEN marks
             ELSE MarkLater(fv, BeginFlash, iFlash, iFlash + 1, marks))

RECURSIVE MarkFlashesForRemoval(_, _, _, _)
MarkFlashesForRemoval(fv, BeginFlash, iFlash, marks) ==
    IF iFlash = Len(fv) THEN marks
    ELSE MarkFlashesForRemoval(fv, BeginFlash, iFlash + 1,
             MarkLater(fv, BeginFlash, iFlash, iFlash + 1, marks))

Erase(v, i) == [k \in 1..(Len(v) - 1) |-> IF k < i + 1 THEN v[k] ELSE v[k + 1]]

\* RemoveFlashesFromVectors erasing from FlashVector alone
RECURSIVE RemoveFlashesFromVectors_FlashOnly(_, _, _, _, _)
RemoveFlashesFromVectors_FlashOnly(marks, fv, BeginFlash, refined, iFlash) ==
    IF iFlash = 0 - 1 THEN [FlashVector |-> fv, Refined |-> refined]
    ELSE IF At(marks, iFlash)
         THEN RemoveFlashesFromVectors_FlashOnly(marks, Erase(fv, BeginFlash + iFlash),
                                                 BeginFlash, refined, iFlash - 1)
         ELSE RemoveFlashesFromVectors_FlashOnly(marks, fv, BeginFlash, refined,
                                                 iFlash - 1)

\* [FlashVector, Refined] after the loop from iFlash down to 0
RECURSIVE RemoveFlashesFromVectors(_, _, _, _, _)
RemoveFlashesFromVectors(marks, fv, BeginFlash, refined, iFlash) ==
    IF iFlash = 0 - 1 THEN [FlashVector |-> fv, Refined |-> refined]
    ELSE IF At(marks, iFlash)
         THEN RemoveFlashesFromVectors(marks, Erase(fv, BeginFlash + iFlash),
                                       BeginFlash, Erase(refined, iFlash), iFlash - 1)
         ELSE RemoveFlashesFromVectors(marks, fv, BeginFlash, refined, iFlash - 1)

\* the orders std::sort may leave the flashes of the frame in
SortedByTime(seg) ==
    {[k \in 1..Len(seg) |-> seg[p[k]]] :
        p \in {q \in [1..Len(seg) -> 1..Len(seg)] :
                 /\ \A a, b \in 1..Len(seg) : a # b => q[a] # q[b]
                 /\ \A a, b \in 1..Len(seg) :
                        a < b => ~TimeLess(seg[q[b]], seg[q[a]])}}
\* RemoveLateLight sorting the whole of FlashVector instead of the part from
\* BeginFlash
RemoveLateLight_SortAll ==
    /\ pc = "finish"
    /\ LET BeginFlash == Len(FlashVector) - Len(RefinedHitsPerFlash)
       IN  \E sorted \in SortedByTime(FlashVector) :
             LET fv == sorted
                 marks == MarkFlashesForRemoval(fv, BeginFlash, BeginFlash,
                              [k \in 1..Len(RefinedHitsPerFlash) |-> FALSE])
                 r == RemoveFlashesFromVectors(marks, fv, BeginFlash, RefinedHitsPerFlash,
                                               Len(marks) - 1)
             IN  /\ FlashVector' = r.FlashVector
                 /\ RefinedHitsPerFlash' = r.Refined
    /\ pc' = "assoc"
    /\ UNCHANGED <<params, HitVector, AssocList, Frame, exception, nPulses, NHits_prev,
                   accums, assign, iCoarse, group, iRefined>>

RemoveLateLight ==
    /\ pc = "finish"
    /\ LET BeginFlash == Len(FlashVector) - Len(RefinedHitsPerFlash)
       IN  \E sorted \in SortedByTime(SubSeq(FlashVector, BeginFlash + 1, Len(FlashVector))) :
             LET fv == SubSeq(FlashVector, 1, BeginFlash) \o sorted
                 marks == MarkFlashesForRemoval(fv, BeginFlash, BeginFlash,
                              [k \in 1..Len(RefinedHitsPerFlash) |-> FALSE])
                 r == RemoveFlashesFromVectors(marks, fv, BeginFlash, RefinedHitsPerFlash,
                                               Len(marks) - 1)
             IN  /\ FlashVector' = r.FlashVector
                 /\ RefinedHitsPerFlash' = r.Refined
    /\ pc' = "assoc"
    /\ UNCHANGED <<params, HitVector, AssocList, Frame, exception, nPulses, NHits_prev,
                   accums, assign, iCoarse, group, iRefined>>

\* lines 226-230, the return of ProcessFrame and the next frame of
\* RunFlashFinder, whose locals start afresh
WriteAssocList ==
    /\ pc = "assoc"
    /\ AssocList' = AssocList \o
           [k \in 1..Len(RefinedHitsPerFlash) |->
               [i \in 1..Len(RefinedHitsPerFlash[k]) |->
                   RefinedHitsPerFlash[k][i] + NHits_prev]]
    /\ Frame' = Frame + 1
    /\ pc' = IF Frame < MaxFrames THEN "pulses" ELSE "done"
    /\ NHits_prev' = Len(HitVector)
    /\ Binned1' = <<>>
    /\ Binned2' = <<>>
    /\ Contributors1' = <<>>
    /\ Contributors2' = <<>>
    /\ FlashesInAccumulator1' = <<>>
    /\ FlashesInAccumulator2' = <<>>
    /\ FlashesBySize' = <<>>
    /\ HitClaimedByFlash' = <<>>
    /\ HitsPerFlash' = <<>>
    /\ RefinedHitsPerFlash' = <<>>
    /\ iCoarse' = 0
    /\ HitsBySize' = <<>>
    /\ HitsUsed' = {}
    /\ HitsThisRefinedFlash' = <<>>
    /\ PEAccumulated' = 0
    /\ FlashMaxTime' = 0
    /\ FlashMinTime' = 0
    /\ NHitsThisRefinedFlash' = 0
    /\ SeedHits' = <<>>
    /\ iRefined' = 0
    /\ UNCHANGED <<params, HitVector, FlashVector, exception, nPulses>>

\* ------------------------------------------------------------ specifications
InitWith(configs) ==
    /\ \E c \in configs :
         /\ BinWidth = c.BinWidth
         /\ HitThreshold = c.HitThreshold
         /\ FlashThreshold = c.FlashThreshold
         /\ WidthTolerance = c.WidthTolerance
         /\ SPESize = [k \in 1..c.NSPE |-> 1 + ((k - 1) % 2)]
    /\ HitVector = <<>>
    /\ FlashVector = <<>>
    /\ AssocList = <<>>
    /\ Frame = 1
    /\ pc = "pulses"
    /\ exception = "none"
    /\ nPulses = 0
    /\ NHits_prev = 0
    /\ Binned1 = <<>>
    /\ Binned2 = <<>>
    /\ Contributors1 = <<>>
    /\ Contributors2 = <<>>
    /\ FlashesInAccumulator1 = <<>>
    /\ FlashesInAccumulator2 = <<>>
    /\ FlashesBySize = <<>>
    /\ HitClaimedByFlash = <<>>
    /\ HitsPerFlash = <<>>
    /\ RefinedHitsPerFlash = <<>>
    /\ iCoarse = 0
    /\ HitsBySize = <<>>
    /\ HitsUsed = {}
    /\ HitsThisRefinedFlash = <<>>
    /\ PEAccumulated = 0
    /\ FlashMaxTime = 0
    /\ FlashMinTime = 0
    /\ NHitsThisRefinedFlash = 0
    /\ SeedHits = <<>>
    /\ iRefined = 0

Init == InitWith(Configs)

InitZeroPE == InitWith(ConfigsZeroPE)

Next ==
    \/ ProcessPulse
    \/ BeginAssign
    \/ ClaimNextBin
    \/ BeginRefine
    \/ SeedGroup
    \/ GrowGroup
    \/ StoreGroup
    \/ BuildFlash
    \/ RemoveLateLight
    \/ WriteAssocList

Spec == Init /\ [][Next]_vars

NextZeroPE ==
    \/ ProcessPulseZeroPE
    \/ BeginAssign
    \/ ClaimNextBin
    \/ BeginRefine
    \/ SeedGroup
    \/ GrowGroup
    \/ StoreGroup
    \/ BuildFlash
    \/ RemoveLateLight
    \/ WriteAssocList

SpecZeroPE == InitZeroPE /\ [][NextZeroPE]_vars

InitLate == InitWith(ConfigsLate)

NextLate ==
    \/ ProcessPulseLate
    \/ BeginAssign
    \/ ClaimNextBin
    \/ BeginRefine
    \/ SeedGroup
    \/ GrowGroup
    \/ StoreGroup
    \/ BuildFlash
    \/ RemoveLateLight
    \/ WriteAssocList

SpecLate == InitLate /\ [][NextLate]_vars

InitDiscard == InitWith(ConfigsDiscard)

NextDiscard ==
    \/ ProcessPulseDiscard
    \/ BeginAssign
    \/ ClaimNextBin
    \/ BeginRefine
    \/ SeedGroup
    \/ GrowGroup
    \/ StoreGroup
    \/ BuildFlash
    \/ RemoveLateLight
    \/ WriteAssocList

SpecDiscard == InitDiscard /\ [][NextDiscard]_vars

InitBins == InitWith(ConfigsBins)

NextBins ==
    \/ ProcessPulseBins
    \/ BeginAssign
    \/ ClaimNextBin
    \/ BeginRefine
    \/ SeedGroup
    \/ GrowGroup
    \/ StoreGroup
    \/ BuildFlash
    \/ RemoveLateLight
    \/ WriteAssocList

SpecBins == InitBins /\ [][NextBins]_vars

\* ------------------------------------------------------------------ claims
Range(s) == {s[i] : i \in 1..Len(s)}
\* no accumulator holds the index -1 of a read of the empty HitVector
NoGarbage ==
    \A c \in {Contributors1, Contributors2} : \A b \in DOMAIN c : (0 - 1) \notin Range(c[b])
\* the per-channel PE of the hits named by ids, gathered from the hit list
GatherPEs(hv, ids) ==
    [c \in 1..NOpChannels |->
        SumPE(hv, SelectSeq(ids, LAMBDA id : At(hv, id).OpChannel = c - 1))]

\* C1: no hit index belongs to two different coarse flashes of HitsPerFlash
C1_CoarseFlashesDisjoint ==
    \A a, b \in 1..Len(HitsPerFlash) :
        a # b => Range(HitsPerFlash[a]) \cap Range(HitsPerFlash[b]) = {}

\* AssignHitsToFlash has finished with two coarse flashes, and a flagged bin
\* holds hits of both: the later candidate was formed without the claimed ones
C1_Witness ==
    /\ pc = "refine"
    /\ iCoarse = 0
    /\ Len(HitsPerFlash) >= 2
    /\ \E b \in Range(FlashesInAccumulator2) :
          /\ Range(ContribAt(Contributors2, b)) \cap Range(HitsPerFlash[1]) # {}
          /\ Range(ContribAt(Contributors2, b)) \cap Range(HitsPerFlash[2]) # {}

\* C2: every hit set stored in RefinedHitsPerFlash has summed PE of at least
\* FlashThreshold
C2_RefinedAboveThreshold ==
    \A k \in 1..Len(RefinedHitsPerFlash) :
        SumPE(HitVector, RefinedHitsPerFlash[k]) >= FlashThreshold

\* a group was stored and a later group of the same coarse flash was rejected:
\* its seed is used and in no stored set
C2_Witness ==
    /\ pc = "seed"
    /\ RefinedHitsPerFlash # <<>>
    /\ \E h \in HitsUsed :
          \A k \in 1..Len(RefinedHitsPerFlash) : h \notin Range(RefinedHitsPerFlash[k])

\* C3: after RemoveLateLight the k-th flash of the frame has the per-channel
\* PE of the hits named by the k-th entry of RefinedHitsPerFlash
C3_FlashMatchesHits ==
    pc = "assoc" =>
        \A k \in 1..Len(RefinedHitsPerFlash) :
            FlashVector[Len(FlashVector) - Len(RefinedHitsPerFlash) + k].PEs
                = GatherPEs(HitVector, RefinedHitsPerFlash[k])

\* C4: every index of an association entry is a position in HitVector and
\* names a hit of the frame of the flash of that entry
C4_AssocIndicesValid ==
    \A k \in 1..Len(AssocList) : \A i \in 1..Len(AssocList[k]) :
        /\ InRange(HitVector, AssocList[k][i])
        /\ k <= Len(FlashVector)
        /\ At(HitVector, AssocList[k][i]).Frame = FlashVector[k].Frame

\* C5: a pulse that appends no hit leaves both accumulators as they were
C5_BelowThresholdDiscarded ==
    [][(pc = "pulses" /\ pc' = "pulses" /\ nPulses' = nPulses + 1
            /\ HitVector' = HitVector)
        => UNCHANGED accums]_vars

\* the flagged list names each bin at or above threshold once, and no other
FlaggedOnce(Binned, Flashes) ==
    /\ \A a, b \in 1..Len(Flashes) : a # b => Flashes[a] # Flashes[b]
    /\ Range(Flashes) = {b \in DOMAIN Binned : Binned[b] >= FlashThreshold}

C7_FrameCompletes == pc # "aborted"

\* C8: every hit of HitVector has a channel in 0..NOpChannels-1
C8_HitChannelsInRange ==
    \A i \in 1..Len(HitVector) :
        HitVector[i].OpChannel >= 0 /\ HitVector[i].OpChannel < NOpChannels

\* C9: no hit index appears in two different entries of RefinedHitsPerFlash
C9_RefinedFlashesDisjoint ==
    \A a, b \in 1..Len(RefinedHitsPerFlash) :
        a # b => Range(RefinedHitsPerFlash[a]) \cap Range(RefinedHitsPerFlash[b]) = {}

\* two groups of one coarse flash have been stored
C9_Witness ==
    /\ pc = "seed"
    /\ iCoarse = 0
    /\ Len(RefinedHitsPerFlash) >= 2

\* C10: every hit set handed to ConstructFlash has a strictly positive total PE
C10_PositiveTotalPE ==
    \A k \in 1..Len(RefinedHitsPerFlash) :
        SumPE(HitVector, RefinedHitsPerFlash[k]) > 0

\* ConstructFlash is about to be called on a set that holds a hit of PE 0
C10_Witness ==
    /\ pc = "construct"
    /\ \E k \in 1..Len(RefinedHitsPerFlash) :
          \E h \in Range(RefinedHitsPerFlash[k]) : At(HitVector, h).PE = 0

\* the summed PE of the hits constructed in frame f
RECURSIVE FramePE(_, _)
FramePE(hv, f) ==
    IF hv = <<>> THEN 0
    ELSE (IF Head(hv).Frame = f THEN Head(hv).PE ELSE 0) + FramePE(Tail(hv), f)

\* C11: a frame whose hits sum to less than FlashThreshold gets no flash and
\* no association entry, whatever pulses below HitThreshold it contains
C11_UnderThresholdFrameSilent ==
    /\ \A f \in 1..MaxFrames :
          FramePE(HitVector, f) < FlashThreshold =>
              /\ \A k \in 1..Len(FlashVector) : FlashVector[k].Frame # f
              /\ (Frame = f => RefinedHitsPerFlash = <<>>)
    /\ Len(AssocList) = Cardinality({k \in 1..Len(FlashVector) : FlashVector[k].Frame < Frame})

\* a frame has been processed whose hits stay below the threshold while a
\* discarded pulse has pushed a bin to the threshold
C11_Witness ==
    /\ pc = "assoc"
    /\ FramePE(HitVector, Frame) > 0
    /\ FramePE(HitVector, Frame) < FlashThreshold
    /\ FlashesInAccumulator1 # <<>>
    /\ NoGarbage

\* the positions in HitVector of the hits constructed in frame f
FrameHits(f) == {i \in 0..(Len(HitVector) - 1) : At(HitVector, i).Frame = f}
\* AssignHitsToFlash has returned for the current frame
Assigned == pc \in {"refine", "seed", "grow", "construct", "finish", "assoc"}

\* C12: when all hits of the frame lie in one bin of accumulator 1 and sum to
\* at least a positive FlashThreshold, there is exactly one coarse flash and
\* it holds all of them
C12_SingleBinOneFlash ==
    (/\ Assigned
     /\ FlashThreshold > 0
     /\ FrameHits(Frame) # {}
     /\ \A i, j \in FrameHits(Frame) :
           GetAccumIndex(At(HitVector, i).PeakTime, 0, BinWidth, 0)
               = GetAccumIndex(At(HitVector, j).PeakTime, 0, BinWidth, 0)
     /\ FramePE(HitVector, Frame) >= FlashThreshold)
    => /\ Len(HitsPerFlash) = 1
       /\ Range(HitsPerFlash[1]) = FrameHits(Frame)

\* (PE_j - H) / sqrt(H) < 3 for a positive finite H = HypPE(i, j)
BelowCutoff(i, j) ==
    LET H == HypPE(i, j)
        D == j.TotalPE * H.den - H.num
    IN  /\ H.den > 0
        /\ H.num > 0
        /\ (D <= 0 \/ FracLess(D, H.den, 9 * H.num, D))
\* the flashes of a time-ordered sequence, from the j-th on, that no earlier
\* flash of the sequence puts below the cutoff
RECURSIVE Survivors(_, _)
Survivors(sorted, j) ==
    IF j > Len(sorted) THEN <<>>
    ELSE (IF \E i \in 1..(j - 1) : BelowCutoff(sorted[i], sorted[j])
          THEN <<>> ELSE <<sorted[j]>>) \o Survivors(sorted, j + 1)
\* the flashes of the current frame in FlashVector
FrameFlashes(fv) == SelectSeq(fv, LAMBDA f : f.Frame = Frame)

GrowthEnded == pc = "grow" /\ NHitsThisRefinedFlash = Len(HitsThisRefinedFlash)

\* C14: when the growth loop has ended, every unused hit of the coarse flash
\* is farther from the centre of the final window than WidthTolerance times
\* (half hit width + half window span), so that one more scan adds nothing
C14_GrowthFixedPoint ==
    GrowthEnded =>
        \A k \in 1..Len(HitsBySize) :
            HitsBySize[k].HitID \notin HitsUsed =>
                TooFar(At(HitVector, HitsBySize[k].HitID),
                       [max |-> FlashMaxTime, min |-> FlashMinTime])

\* the loop has ended for a group of two hits or more while a hit of the
\* coarse flash is still unused
C14_Witness ==
    /\ GrowthEnded
    /\ Len(HitsThisRefinedFlash) >= 2
    /\ \E k \in 1..Len(HitsBySize) : HitsBySize[k].HitID \notin HitsUsed

\* flash j moved d ticks later, PE and width unchanged
Later(j, d) == [j EXCEPT !.AveTime = @ + d * j.TotalPE]
LateDelays == 1..4

\* C15: for flashes i, j of positive PE and width with i not after j, a
\* larger time gap gives a strictly smaller hypothetical PE, and a pair that
\* is not marked is not marked at any larger gap
C15_MonotoneInGap ==
    \A a, b \in 1..Len(FlashVector) : \A d \in LateDelays :
        LET i == FlashVector[a]
            j == FlashVector[b]
        IN  (/\ i.Width2 > 0 /\ j.Width2 > 0
             /\ i.TotalPE > 0 /\ j.TotalPE > 0
             /\ ~TimeLess(j, i)
             /\ HypPE(i, j).num > 0)
            => /\ HypPE(i, Later(j, d)).num < HypPE(i, j).num
               /\ HypPE(i, Later(j, d)).den = HypPE(i, j).den
               /\ (~LateLight(i, j) => ~LateLight(i, Later(j, d)))

\* two flashes of positive width of which the later one is late light of
\* the earlier one, and would not be at a larger gap
C15_Witness ==
    \E a, b \in 1..Len(FlashVector) : \E d \in LateDelays :
        /\ FlashVector[a].Width2 > 0
        /\ FlashVector[b].Width2 > 0
        /\ TimeLess(FlashVector[a], FlashVector[b])
        /\ LateLight(FlashVector[a], FlashVector[b])
        /\ ~LateLight(FlashVector[a], Later(FlashVector[b], d))

\* C16: no step changes, moves or removes a flash of an earlier frame in
\* FlashVector or an entry already in AssocList
C16_EarlierFramesUntouched ==
    [][/\ \A k \in 1..Len(FlashVector) :
              FlashVector[k].Frame < Frame =>
                  k <= Len(FlashVector') /\ FlashVector'[k] = FlashVector[k]
       /\ Len(AssocList') >= Len(AssocList)
       /\ SubSeq(AssocList', 1, Len(AssocList)) = AssocList]_vars

\* late light has been removed in a frame that follows a frame with flashes
C16_Witness ==
    /\ pc = "assoc"
    /\ AssocList # <<>>
    /\ \E k \in 1..Len(FlashVector) : FlashVector[k].Frame < Frame
    /\ Len(RefinedHitsPerFlash) < iRefined

\* the accumulated PE of the bin of an entry of FlashesBySize
BinTotal(e) == BinAt(IF e.acc = 1 THEN Binned1 ELSE Binned2, e.bin)

\* where the bin of an entry stands among the flagged bins of its accumulator
FlagPos(e) ==
    LET flagged == IF e.acc = 1 THEN FlashesInAccumulator1 ELSE FlashesInAccumulator2
    IN  IF \E k \in 1..Len(flagged) : flagged[k] = e.bin
        THEN CHOOSE k \in 1..Len(flagged) : flagged[k] = e.bin
        ELSE 0

ConsideredBefore(x, y) ==
    \/ BinTotal(x) > BinTotal(y)
    \/ /\ BinTotal(x) = BinTotal(y)
       /\ \/ x.acc < y.acc
          \/ x.acc = y.acc /\ FlagPos(x) < FlagPos(y)

InConsiderationOrder(bySize) ==
    /\ \A a \in 1..Len(bySize) : FlagPos(bySize[a]) > 0
    /\ \A a, b \in 1..Len(bySize) : a < b => ConsideredBefore(bySize[a], bySize[b])

\* C17: with PE of hits only, the bins AssignHitsToFlash goes through are all
\* the flagged bins of both accumulators, by non-increasing accumulated PE of the bin, accumulator
\* 1 before accumulator 2 among equal totals, in flagging order within an
\* accumulator, and each step takes the first bin that is left
C17_BinsInSizeOrder ==
    [][/\ (pc = "pulses" /\ pc' \in {"assign", "finish"} /\ NoGarbage) =>
              /\ Len(FlashesBySize') =
                     Len(FlashesInAccumulator1) + Len(FlashesInAccumulator2)
              /\ InConsiderationOrder(FlashesBySize')
       /\ (pc = "assign" /\ pc' # "aborted") =>
              /\ FlashesBySize' = Tail(FlashesBySize)
              /\ HitsPerFlash' \in
                     {HitsPerFlash,
                      Append(HitsPerFlash,
                             FillHitsThisFlash(
                                 ContribAt(IF Head(FlashesBySize).acc = 1
                                           THEN Contributors1 ELSE Contributors2,
                                           Head(FlashesBySize).bin),
                                 NHits_prev, HitClaimedByFlash))}]_vars

\* bins of equal total in both accumulators and a bin of another total wait
\* to be considered
C17_Witness ==
    /\ pc = "assign"
    /\ NoGarbage
    /\ \E a, b, c \in 1..Len(FlashesBySize) :
          /\ BinTotal(FlashesBySize[a]) = BinTotal(FlashesBySize[b])
          /\ FlashesBySize[a].acc = 1
          /\ FlashesBySize[b].acc = 2
          /\ BinTotal(FlashesBySize[c]) # BinTotal(FlashesBySize[a])

ContribOf(e) == ContribAt(IF e.acc = 1 THEN Contributors1 ELSE Contributors2, e.bin)

\* the flagged bins of the accumulator that entry e is not of
FlaggedInOther(e) ==
    LET other == IF e.acc = 1 THEN 2 ELSE 1
        flagged == IF e.acc = 1 THEN FlashesInAccumulator2 ELSE FlashesInAccumulator1
    IN  {[acc |-> other, bin |-> flagged[k]] : k \in 1..Len(flagged)}

\* the unclaimed hits of the bin of e
Candidate(e) == FillHitsThisFlash(ContribOf(e), NHits_prev, HitClaimedByFlash)

\* C18: when the candidate of a flagged bin A is accepted, A's coarse flash
\* holds every hit of A that also lies in a flagged bin of the other
\* accumulator with a smaller total; and a hit is in the candidate of a bin B
\* only if no flagged bin of the other accumulator with a larger total that
\* holds the hit has a candidate at or above FlashThreshold
C18_LargerBinTakesSharedHit ==
    [][(pc = "assign" /\ pc' # "aborted" /\ NoGarbage) =>
          LET e == Head(FlashesBySize)
          IN  /\ HitsPerFlash' # HitsPerFlash =>
                    \A h \in Range(ContribOf(e)) :
                        (\E B \in FlaggedInOther(e) :
                            h \in Range(ContribOf(B)) /\ BinTotal(e) > BinTotal(B))
                        => h \in Range(HitsPerFlash'[Len(HitsPerFlash')])
              /\ \A h \in Range(Candidate(e)) :
                    \A A \in FlaggedInOther(e) :
                        (h \in Range(ContribOf(A)) /\ BinTotal(A) > BinTotal(e))
                        => SumPE(HitVector, Candidate(A)) < FlashThreshold]_vars

\* the flagged bins that AssignHitsToFlash has gone through
Considered ==
    ({[acc |-> 1, bin |-> FlashesInAccumulator1[k]] : k \in 1..Len(FlashesInAccumulator1)}
     \cup {[acc |-> 2, bin |-> FlashesInAccumulator2[k]] : k \in 1..Len(FlashesInAccumulator2)})
    \ {[acc |-> FlashesBySize[k].acc, bin |-> FlashesBySize[k].bin] : k \in 1..Len(FlashesBySize)}

\* C19: when the PE of the unclaimed entries of the bin being considered,
\* summed as ClaimHits sums them, is below FlashThreshold, the step changes
\* neither HitsPerFlash nor HitClaimedByFlash, so these hits are still
\* unclaimed for the bins that follow
C19_RejectedCandidateClaimsNothing ==
    [][(pc = "assign" /\ pc' # "aborted"
          /\ SumPE(HitVector, Candidate(Head(FlashesBySize))) < FlashThreshold) =>
          /\ HitsPerFlash' = HitsPerFlash
          /\ HitClaimedByFlash' = HitClaimedByFlash
          /\ \A h \in Range(Candidate(Head(FlashesBySize))) :
                 At(HitClaimedByFlash', h - NHits_prev) = 0 - 1]_vars

\* a bin has been considered and rejected with a hit still unclaimed, and a
\* bin that is still to be considered holds that hit
C19_Witness ==
    /\ pc = "assign"
    /\ NoGarbage
    /\ \E e \in Considered : \E h \in Range(Candidate(e)) :
          \E k \in 1..Len(FlashesBySize) : h \in Range(ContribOf(FlashesBySize[k]))

\* RunFlashFinder runs to its end: a call of RefineHitsInFlash that has begun
\* goes on with its next step
SpecZeroPEFair ==
    SpecZeroPE /\ WF_vars(SeedGroup \/ GrowGroup \/ StoreGroup)

\* C20: RefineHitsInFlash returns, and up to there the passes that found a
\* seed are no more than the hits of the coarse flash, each seed staying used
C20_RefineTerminates ==
    /\ (pc \in {"seed", "grow"}) ~> (pc \notin {"seed", "grow"})
    /\ [](pc \in {"seed", "grow"} =>
            /\ NSeeds <= Len(At(HitsPerFlash, iCoarse))
            /\ pc = "grow" => HitsThisRefinedFlash[1] \in HitsUsed)

\* a group of several hits has been rejected at its second or later seed and
\* its second hit released
C20_Witness ==
    /\ pc = "seed"
    /\ NSeeds >= 2
    /\ Len(HitsThisRefinedFlash) >= 2
    /\ PEAccumulated < FlashThreshold
    /\ HitsThisRefinedFlash[2] \notin HitsUsed

\* the seeds of the call before the latest one
FormerSeeds == {SeedHits[j] : j \in 1..(Len(SeedHits) - 1)}

\* C21: a group below FlashThreshold is not stored, its seed stays used, its
\* other members become unused and no other flag changes (none at all for a
\* group of one hit); and no member of a group has been the seed of an
\* earlier group of the same coarse flash
C21_RejectedGroupKeepsSeed ==
    [][/\ (pc = "grow" /\ pc' = "seed" /\ PEAccumulated < FlashThreshold) =>
              /\ RefinedHitsPerFlash' = RefinedHitsPerFlash
              /\ HitsThisRefinedFlash[1] \in HitsUsed'
              /\ \A k \in 2..Len(HitsThisRefinedFlash) :
                     HitsThisRefinedFlash[k] \notin HitsUsed'
              /\ \A h \in HitsUsed \cup HitsUsed' :
                     h \notin Range(HitsThisRefinedFlash) =>
                         (h \in HitsUsed <=> h \in HitsUsed')
              /\ Len(HitsThisRefinedFlash) = 1 => HitsUsed' = HitsUsed
       /\ (pc' \in {"seed", "grow"} /\ HitsThisRefinedFlash' # <<>>) =>
              /\ HitsThisRefinedFlash'[1] = SeedHits'[Len(SeedHits')]
              /\ \A k \in 1..Len(HitsThisRefinedFlash') :
                     HitsThisRefinedFlash'[k] \notin
                         {SeedHits'[j] : j \in 1..(Len(SeedHits') - 1)}]_vars

\* the growth of a group has ended without a former seed that lies within
\* the tolerance of the group: that seed's own group was rejected and the
\* released hits are grouped again
C21_Witness ==
    /\ GrowthEnded
    /\ \E s \in FormerSeeds :
          /\ s \notin Range(HitsThisRefinedFlash)
          /\ ~TooFar(At(HitVector, s), [max |-> FlashMaxTime, min |-> FlashMinTime])

\* flash k of the time-sorted flashes is below the cutoff against an earlier one
MarkedBy(sorted, k) == \E i \in 1..(k - 1) : LateLight(sorted[i], sorted[k])

\* flash k is below the cutoff against an earlier flash that is itself marked
ChainMarked(sorted) ==
    {k \in 1..Len(sorted) :
        \E i \in 1..(k - 1) : MarkedBy(sorted, i) /\ LateLight(sorted[i], sorted[k])}

\* the entries of s at the positions in keep, in order
RECURSIVE Restrict(_, _, _)
Restrict(s, keep, k) ==
    IF k > Len(s) THEN <<>>
    ELSE (IF k \in keep THEN <<s[k]>> ELSE <<>>) \o Restrict(s, keep, k + 1)

\* C22: RemoveLateLight removes every flash of the frame that is below the
\* cutoff against an earlier flash which is itself marked for removal
C22_MarkedFlashStillMarks ==
    [][(pc = "finish" /\ pc' = "assoc") =>
          \E sorted \in SortedByTime(FrameFlashes(FlashVector)) :
              \E keep \in SUBSET ((1..Len(sorted)) \ ChainMarked(sorted)) :
                  FrameFlashes(FlashVector') = Restrict(sorted, keep, 1)]_vars

\* the flash of hits 2k, 2k+1 of the frame
PairFlash(k) ==
    ConstructFlash(<<NHits_prev + 2 * k, NHits_prev + 2 * k + 1>>, HitVector, Frame)

\* three flashes of two hits each were built; the first marks the second,
\* the second marks the third, the first does not mark the third, and the
\* first alone is left
C22_Witness ==
    /\ pc = "assoc"
    /\ Len(HitVector) - NHits_prev = 6
    /\ iRefined = 3
    /\ Len(FrameFlashes(FlashVector)) = 1
    /\ FrameFlashes(FlashVector)[1].AveTime = PairFlash(0).AveTime
    /\ FrameFlashes(FlashVector)[1].TotalPE = PairFlash(0).TotalPE
    /\ TimeLess(PairFlash(0), PairFlash(1))
    /\ TimeLess(PairFlash(1), PairFlash(2))
    /\ LateLight(PairFlash(0), PairFlash(1))
    /\ LateLight(PairFlash(1), PairFlash(2))
    /\ ~LateLight(PairFlash(0), PairFlash(2))

\* hits a and b are contributors of one bin of the accumulator
ShareBin(contributors, a, b) ==
    \E bin \in DOMAIN contributors : {a, b} \subseteq Range(contributors[bin])

\* C23: two hits of the frame whose times t_max + TimeSlice differ by less
\* than BinWidth/2 are contributors of one bin of accumulator 1 or of one bin
\* of accumulator 2
C23_CloseHitsShareBin ==
    (pc # "aborted" /\ BinWidth >= 2) =>
        \A a, b \in FrameHits(Frame) :
            2 * Abs(At(HitVector, a).PeakTime - At(HitVector, b).PeakTime) < BinWidth
            => ShareBin(Contributors1, a, b) \/ ShareBin(Contributors2, a, b)

\* two hits closer than BinWidth/2 lie on the two sides of a bin boundary of
\* accumulator 1
C23_Witness ==
    /\ pc = "pulses"
    /\ \E a, b \in FrameHits(Frame) :
          /\ a # b
          /\ 2 * Abs(At(HitVector, a).PeakTime - At(HitVector, b).PeakTime) < BinWidth
          /\ ~ShareBin(Contributors1, a, b)
          /\ ShareBin(Contributors2, a, b)

\* ProcessFrame is not running: before the first waveform of a frame, with
\* the accumulators empty, or after the last frame
Returned ==
    \/ pc = "done"
    \/ pc = "pulses" /\ Len(HitVector) = NHits_prev /\ Contributors1 = <<>>

C25_EarliestFlashSurvives ==
    [][(pc = "finish" /\ pc' = "assoc" /\ FrameFlashes(FlashVector) # <<>>) =>
          /\ FrameFlashes(FlashVector') # <<>>
          /\ FrameFlashes(FlashVector')[1] \in Range(FrameFlashes(FlashVector))
          /\ \A f \in Range(FrameFlashes(FlashVector)) :
                 ~TimeLess(f, FrameFlashes(FlashVector')[1])]_vars

\* of the flashes built in the frame only one is left
C25_Witness ==
    /\ pc = "assoc"
    /\ iRefined >= 2
    /\ Len(RefinedHitsPerFlash) = 1
    /\ Len(FrameFlashes(FlashVector)) = 1

\* a vector of hit indices that holds no index twice
NoRepeat(s) == \A i, j \in 1..Len(s) : s[i] = s[j] => i = j

\* the PE of a set of hits, each hit counted once
RECURSIVE SetPE(_, _)
SetPE(hv, ids) ==
    IF ids = {} THEN 0
    ELSE LET h == CHOOSE x \in ids : TRUE
         IN  At(hv, h).PE + SetPE(hv, ids \ {h})

\* C26: no group under growth, no refined group and no entry of AssocList
\* holds a hit index twice, and the flash built from a refined group has as
\* TotalPE the PE of its hits, each counted once
C26_NoHitTwiceInEntry ==
    /\ [](/\ NoRepeat(HitsThisRefinedFlash)
          /\ \A k \in 1..Len(RefinedHitsPerFlash) : NoRepeat(RefinedHitsPerFlash[k])
          /\ \A k \in 1..Len(AssocList) : NoRepeat(AssocList[k]))
    /\ [][(pc = "construct" /\ Len(FlashVector') = Len(FlashVector) + 1) =>
            FlashVector'[Len(FlashVector')].TotalPE =
                SetPE(HitVector, Range(At(RefinedHitsPerFlash, iRefined)))]_vars

\* a coarse flash that holds a hit twice after a pulse below the hit
\* threshold, and a refined group made of its hits
C26_Witness ==
    /\ pc = "assoc"
    /\ nPulses > Len(HitVector) - NHits_prev
    /\ \E c \in 1..Len(HitsPerFlash) :
          /\ ~NoRepeat(HitsPerFlash[c])
          /\ \E k \in 1..Len(RefinedHitsPerFlash) :
                Range(RefinedHitsPerFlash[k]) \subseteq Range(HitsPerFlash[c])

\* C27: no pulse that passes the time-slice check with 0 <= t_max <=
\* BeamGateTicks makes FillAccumulator index a bin at or beyond NBins
C27_AccumIndexInRange ==
    ~(pc = "aborted" /\ exception = "Contributors.at")
====
